---- MODULE Spec2Model ----
(***************************************************************************)
(* Adversarial game-tree search (minimax and alpha-beta) over the three    *)
(* example games of the repository: the bucket game (bucket_game.py), the  *)
(* halving game (halving_game.py) and tic-tac-toe (tic_tac_toe.py).        *)
(*                                                                         *)
(* A state of a game is the Python tuple (player_index, data), written     *)
(* <<player, data>>.  The three files define functions of the same names;  *)
(* the prefixes B_, H_ and T_ tell them apart.  A Python `for` loop that   *)
(* carries (v, best) is the recursive operator <name>_loop over the index  *)
(* of the action list; a function returning the pair (value, action)       *)
(* returns <<value, action>>.                                              *)
(***************************************************************************)
EXTENDS Integers, Sequences, FiniteSets, TLC

VARIABLES game, N, mode, state, trace

vars == <<game, N, mode, state, trace>>

\* Largest initial number of the halving game that is explored (Game(N)).
MaxN == 7

\* The alpha-beta windows of tic-tac-toe are examined on the boards with at
\* most this many empty cells.
MaxWindowCells == 5

\* The tie-break of the tic-tac-toe searches is examined on the boards with
\* at most this many empty cells.
MaxTieCells == 6

\* float("-inf") and float("inf"): below and above every utility of the games
\* (the utilities lie in -50..50).
NegInf == -1000
PosInf == 1000

\* Python's None as an action of the bucket game and of tic-tac-toe, whose
\* actions are tuples, and of the halving game, whose actions are strings.
None == <<>>
H_None == "None"

\* None as a cell of the tic-tac-toe board (the players are 0 and 1).
NoneCell == -1

(***************************************************************************)
(* bucket_game.py                                                          *)
(* An element of the action list is a bucket label (a str) or a number (an *)
(* int); the Python type is kept as a tag: <<"str", "A">>, <<"int", 15>>.  *)
(***************************************************************************)
PyStr(s) == <<"str", s>>
PyInt(n) == <<"int", n>>

B_initial_state == <<0, <<PyStr("A"), PyStr("B"), PyStr("C")>>>>

B_to_move(s) == s[1]

B_actions(s) == s[2]

\* Mutant of B_result_assert: the assertion asks for a str.
B_result_assert_str(action) == action[1] = "str"

\* The assertion of result: type(action) is int.
B_result_assert(action) == action[1] = "int"

B_result(s, action) ==
    IF action = PyStr("A") THEN <<(B_to_move(s) + 1) % 2, <<PyInt(-50), PyInt(50)>>>>
    ELSE IF action = PyStr("B") THEN <<(B_to_move(s) + 1) % 2, <<PyInt(3), PyInt(1)>>>>
    ELSE IF action = PyStr("C") THEN <<(B_to_move(s) + 1) % 2, <<PyInt(-5), PyInt(15)>>>>
    ELSE <<(B_to_move(s) + 1) % 2, <<action>>>>

\* result with the objects it works on: a heap is a sequence of list
\* objects, and a state on the heap is <<player, reference to its list>>.
\* Every branch of result builds a new list and writes to no existing one.
B_result_heap(heap, hs, action) ==
    LET s2 == B_result(<<hs[1], heap[hs[2]]>>, action)
    IN  <<Append(heap, s2[2]), <<s2[1], Len(heap) + 1>>>>

B_is_terminal(s) == Len(s[2]) = 1

\* The assertions of utility: is_terminal(state) and type(actions[0]) is int.
B_utility_assert(s) == B_is_terminal(s) /\ s[2][1][1] = "int"

B_utility(s, player) ==
    IF player = B_to_move(s) THEN s[2][1][2] ELSE -s[2][1][2]

RECURSIVE B_max_value(_, _), B_min_value(_, _)
RECURSIVE B_max_value_loop(_, _, _, _, _, _), B_min_value_loop(_, _, _, _, _, _)

B_max_value_loop(s, player, acts, i, v, best) ==
    IF i > Len(acts) THEN <<v, best>>
    ELSE LET v2 == B_min_value(B_result(s, acts[i]), player)[1]
         IN  IF v2 > v
             THEN B_max_value_loop(s, player, acts, i + 1, v2, acts[i])
             ELSE B_max_value_loop(s, player, acts, i + 1, v, best)

B_max_value(s, player) ==
    IF B_is_terminal(s) THEN <<B_utility(s, player), None>>
    ELSE B_max_value_loop(s, player, B_actions(s), 1, NegInf, None)

\* min_value of the bucket game starts from float("-inf") and keeps v2 > v,
\* as the source does.
B_min_value_loop(s, player, acts, i, v, best) ==
    IF i > Len(acts) THEN <<v, best>>
    ELSE LET v2 == B_max_value(B_result(s, acts[i]), player)[1]
         IN  IF v2 > v
             THEN B_min_value_loop(s, player, acts, i + 1, v2, acts[i])
             ELSE B_min_value_loop(s, player, acts, i + 1, v, best)

B_min_value(s, player) ==
    IF B_is_terminal(s) THEN <<B_utility(s, player), None>>
    ELSE B_min_value_loop(s, player, B_actions(s), 1, NegInf, None)

B_minimax_search(s) == B_max_value(s, B_to_move(s))[2]

(***************************************************************************)
(* halving_game.py                                                         *)
(***************************************************************************)
H_initial_state(n) == <<0, n>>

H_to_move(s) == s[1]

H_actions(s) == <<"--", "/2">>

\* Mutant of H_result: the halving move leaves the turn with the mover.
H_result_same_player(s, action) ==
    IF action = "--" THEN <<(H_to_move(s) + 1) % 2, s[2] - 1>>
    ELSE <<H_to_move(s), s[2] \div 2>>

\* Mutant of H_result: the halving move rounds up.
H_result_round_up(s, action) ==
    IF action = "--" THEN <<(H_to_move(s) + 1) % 2, s[2] - 1>>
    ELSE <<(H_to_move(s) + 1) % 2, (s[2] + 1) \div 2>>

\* number // 2 is floored division; the numbers of the game are >= 0.
H_result(s, action) ==
    IF action = "--" THEN <<(H_to_move(s) + 1) % 2, s[2] - 1>>
    ELSE <<(H_to_move(s) + 1) % 2, s[2] \div 2>>

H_is_terminal(s) == s[2] = 0

\* Mutant of H_utility: +1 goes to the player who is not to move.
H_utility_not_to_move(s, player) == IF H_to_move(s) # player THEN 1 ELSE -1

\* The assertion of utility: is_terminal(state).
H_utility_assert(s) == H_is_terminal(s)

H_utility(s, player) == IF H_to_move(s) = player THEN 1 ELSE -1

RECURSIVE H_max_value(_, _), H_min_value(_, _)
RECURSIVE H_max_value_loop(_, _, _, _, _, _), H_min_value_loop(_, _, _, _, _, _)
RECURSIVE H_max_value_loop_ge(_, _, _, _, _, _)

\* Mutant of H_max_value_loop: v2 >= v, so a later equal value replaces the best.
H_max_value_loop_ge(s, player, acts, i, v, best) ==
    IF i > Len(acts) THEN <<v, best>>
    ELSE LET v2 == H_min_value(H_result(s, acts[i]), player)[1]
         IN  IF v2 >= v
             THEN H_max_value_loop_ge(s, player, acts, i + 1, v2, acts[i])
             ELSE H_max_value_loop_ge(s, player, acts, i + 1, v, best)

H_max_value_loop(s, player, acts, i, v, best) ==
    IF i > Len(acts) THEN <<v, best>>
    ELSE LET v2 == H_min_value(H_result(s, acts[i]), player)[1]
         IN  IF v2 > v
             THEN H_max_value_loop(s, player, acts, i + 1, v2, acts[i])
             ELSE H_max_value_loop(s, player, acts, i + 1, v, best)

\* Mutant of H_max_value: the running maximum starts from 0 and not from
\* float("-inf").
H_max_value_from_zero(s, player) ==
    IF H_is_terminal(s) THEN <<H_utility(s, player), H_None>>
    ELSE H_max_value_loop(s, player, H_actions(s), 1, 0, H_None)

H_max_value(s, player) ==
    IF H_is_terminal(s) THEN <<H_utility(s, player), H_None>>
    ELSE H_max_value_loop(s, player, H_actions(s), 1, NegInf, H_None)

H_min_value_loop(s, player, acts, i, v, best) ==
    IF i > Len(acts) THEN <<v, best>>
    ELSE LET v2 == H_max_value(H_result(s, acts[i]), player)[1]
         IN  IF v2 < v
             THEN H_min_value_loop(s, player, acts, i + 1, v2, acts[i])
             ELSE H_min_value_loop(s, player, acts, i + 1, v, best)

H_min_value(s, player) ==
    IF H_is_terminal(s) THEN <<H_utility(s, player), H_None>>
    ELSE H_min_value_loop(s, player, H_actions(s), 1, PosInf, H_None)

H_minimax_search(s) == H_max_value(s, H_to_move(s))[2]

(***************************************************************************)
(* tic_tac_toe.py                                                          *)
(* The board is board[r][c] with r, c in 0..2; an action is <<r, c>>.      *)
(***************************************************************************)
T_initial_state == <<0, [r \in 0..2 |-> [c \in 0..2 |-> NoneCell]]>>

T_to_move(s) == s[1]

\* (r, c) for r in range(3) for c in range(3): row-major order.
T_cells ==
    <<<<0, 0>>, <<0, 1>>, <<0, 2>>,
      <<1, 0>>, <<1, 1>>, <<1, 2>>,
      <<2, 0>>, <<2, 1>>, <<2, 2>>>>

T_actions(s) == SelectSeq(T_cells, LAMBDA a : s[2][a[1]][a[2]] = NoneCell)

\* deepcopy(board) with nb[r][c] = to_move(state): a new board value.
T_result(s, action) ==
    <<(T_to_move(s) + 1) % 2,
      [s[2] EXCEPT ![action[1]][action[2]] = T_to_move(s)]>>

(***************************************************************************)
(* result with the objects it works on.  A heap is a sequence of list      *)
(* objects and a reference is an index into it.  A board is a list object  *)
(* of three references to row objects; a row is a list object of three     *)
(* cells.  A state on the heap is <<player, reference to its board>>.      *)
(***************************************************************************)
\* The heap that holds the board of s alone: the board object is 1 and its
\* rows are 2, 3, 4.
T_heap_of(s) == <<[r \in 0..2 |-> r + 2], s[2][0], s[2][1], s[2][2]>>

\* The board a reference denotes in a heap.
T_board_at(heap, ref) == [r \in 0..2 |-> heap[heap[ref][r]]]

\* Mutant of T_deepcopy: list(board), a new outer list over the same rows.
T_shallow_copy(heap, ref) ==
    <<Append(heap, heap[ref]), Len(heap) + 1>>

\* deepcopy(board): three new row objects and a new board object over them;
\* the result is the new heap and the reference to the new board.
T_deepcopy(heap, ref) ==
    LET n == Len(heap)
    IN  <<heap \o <<heap[heap[ref][0]], heap[heap[ref][1]], heap[heap[ref][2]],
                    [r \in 0..2 |-> n + 1 + r]>>,
          n + 4>>

\* nb[r][c] = value: the row object nb[r] refers to is written in place.
T_setitem(heap, ref, r, c, value) ==
    [heap EXCEPT ![heap[ref][r]] = [@ EXCEPT ![c] = value]]

\* result on the heap: the new heap and the state returned.
T_result_heap(heap, hs, action) ==
    LET copied == T_deepcopy(heap, hs[2])
        nb == copied[2]
    IN  <<T_setitem(copied[1], nb, action[1], action[2], hs[1]),
          <<(hs[1] + 1) % 2, nb>>>>

\* any(all(...)) over the three rows, the three columns and the two
\* diagonals, written out line by line.
T_is_winner(s, player) ==
    LET b == s[2]
        rows == \/ (b[0][0] = player /\ b[0][1] = player /\ b[0][2] = player)
                \/ (b[1][0] = player /\ b[1][1] = player /\ b[1][2] = player)
                \/ (b[2][0] = player /\ b[2][1] = player /\ b[2][2] = player)
        cols == \/ (b[0][0] = player /\ b[1][0] = player /\ b[2][0] = player)
                \/ (b[0][1] = player /\ b[1][1] = player /\ b[2][1] = player)
                \/ (b[0][2] = player /\ b[1][2] = player /\ b[2][2] = player)
        diag == \/ (b[0][0] = player /\ b[1][1] = player /\ b[2][2] = player)
                \/ (b[0][2] = player /\ b[1][1] = player /\ b[2][0] = player)
    IN  rows \/ cols \/ diag

\* Mutant of T_is_terminal: only a win ends the game, a full board does not.
T_is_terminal_win_only(s) == T_is_winner(s, (T_to_move(s) + 1) % 2)

\* Mutant of T_is_terminal: only the full board ends the game.
T_is_terminal_full_only(s) ==
    \A r \in 0..2 : \A c \in 0..2 : s[2][r][c] # NoneCell

T_is_terminal(s) ==
    IF T_is_winner(s, (T_to_move(s) + 1) % 2) THEN TRUE
    ELSE \A r \in 0..2 : \A c \in 0..2 : s[2][r][c] # NoneCell

\* Mutant of T_utility: the loser's branch is missing.
T_utility_no_loss(s, player) == IF T_is_winner(s, player) THEN 1 ELSE 0

\* The assertion of utility: is_terminal(state).
T_utility_assert(s) == T_is_terminal(s)

T_utility(s, player) ==
    IF T_is_winner(s, player) THEN 1
    ELSE IF T_is_winner(s, (player + 1) % 2) THEN -1
    ELSE 0

RECURSIVE T_max_plain(_, _), T_min_plain(_, _)
RECURSIVE T_max_plain_loop(_, _, _, _, _, _), T_min_plain_loop(_, _, _, _, _, _)
RECURSIVE T_max_plain_loop_ge(_, _, _, _, _, _)

\* Mutant of T_max_plain_loop: v2 >= v, so a later equal value replaces the best.
T_max_plain_loop_ge(s, player, acts, i, v, best) ==
    IF i > Len(acts) THEN <<v, best>>
    ELSE LET v2 == T_min_plain(T_result(s, acts[i]), player)[1]
         IN  IF v2 >= v
             THEN T_max_plain_loop_ge(s, player, acts, i + 1, v2, acts[i])
             ELSE T_max_plain_loop_ge(s, player, acts, i + 1, v, best)

T_max_plain_loop(s, player, acts, i, v, best) ==
    IF i > Len(acts) THEN <<v, best>>
    ELSE LET v2 == T_min_plain(T_result(s, acts[i]), player)[1]
         IN  IF v2 > v
             THEN T_max_plain_loop(s, player, acts, i + 1, v2, acts[i])
             ELSE T_max_plain_loop(s, player, acts, i + 1, v, best)

T_max_plain(s, player) ==
    IF T_is_terminal(s) THEN <<T_utility(s, player), None>>
    ELSE T_max_plain_loop(s, player, T_actions(s), 1, NegInf, None)

T_min_plain_loop(s, player, acts, i, v, best) ==
    IF i > Len(acts) THEN <<v, best>>
    ELSE LET v2 == T_max_plain(T_result(s, acts[i]), player)[1]
         IN  IF v2 < v
             THEN T_min_plain_loop(s, player, acts, i + 1, v2, acts[i])
             ELSE T_min_plain_loop(s, player, acts, i + 1, v, best)

T_min_plain(s, player) ==
    IF T_is_terminal(s) THEN <<T_utility(s, player), None>>
    ELSE T_min_plain_loop(s, player, T_actions(s), 1, PosInf, None)

T_minimax_search(s) == T_max_plain(s, T_to_move(s))[2]

Max(a, b) == IF a > b THEN a ELSE b
Min(a, b) == IF a < b THEN a ELSE b

RECURSIVE T_max_ab(_, _, _, _), T_min_ab(_, _, _, _)
RECURSIVE T_max_ab_loop(_, _, _, _, _, _, _, _), T_min_ab_loop(_, _, _, _, _, _, _, _)
RECURSIVE T_max_ab_loop_alpha_cut(_, _, _, _, _, _, _, _)
RECURSIVE T_min_ab_loop_beta_cut(_, _, _, _, _, _, _, _)

\* Mutant of T_max_ab_loop: the break tests v against alpha instead of beta.
T_max_ab_loop_alpha_cut(s, player, acts, i, v, best, alpha, beta) ==
    IF i > Len(acts) THEN <<v, best>>
    ELSE LET v2 == T_min_ab(T_result(s, acts[i]), player, alpha, beta)[1]
             nv == IF v2 > v THEN v2 ELSE v
             nbest == IF v2 > v THEN acts[i] ELSE best
             nalpha == IF v2 > v THEN Max(alpha, nv) ELSE alpha
         IN  IF nv >= nalpha THEN <<nv, nbest>>
             ELSE T_max_ab_loop_alpha_cut(s, player, acts, i + 1, nv, nbest, nalpha, beta)

\* One pass of the loop body: the update under v2 > v, then the break test
\* on the updated v.
T_max_ab_loop(s, player, acts, i, v, best, alpha, beta) ==
    IF i > Len(acts) THEN <<v, best>>
    ELSE LET v2 == T_min_ab(T_result(s, acts[i]), player, alpha, beta)[1]
             nv == IF v2 > v THEN v2 ELSE v
             nbest == IF v2 > v THEN acts[i] ELSE best
             nalpha == IF v2 > v THEN Max(alpha, nv) ELSE alpha
         IN  IF nv >= beta THEN <<nv, nbest>>
             ELSE T_max_ab_loop(s, player, acts, i + 1, nv, nbest, nalpha, beta)

T_max_ab(s, player, alpha, beta) ==
    IF T_is_terminal(s) THEN <<T_utility(s, player), None>>
    ELSE T_max_ab_loop(s, player, T_actions(s), 1, NegInf, None, alpha, beta)

\* Mutant of T_min_ab_loop: the break tests v against beta instead of alpha.
T_min_ab_loop_beta_cut(s, player, acts, i, v, best, alpha, beta) ==
    IF i > Len(acts) THEN <<v, best>>
    ELSE LET v2 == T_max_ab(T_result(s, acts[i]), player, alpha, beta)[1]
             nv == IF v2 < v THEN v2 ELSE v
             nbest == IF v2 < v THEN acts[i] ELSE best
             nbeta == IF v2 < v THEN Min(beta, nv) ELSE beta
         IN  IF nv <= nbeta THEN <<nv, nbest>>
             ELSE T_min_ab_loop_beta_cut(s, player, acts, i + 1, nv, nbest, alpha, nbeta)

T_min_ab_loop(s, player, acts, i, v, best, alpha, beta) ==
    IF i > Len(acts) THEN <<v, best>>
    ELSE LET v2 == T_max_ab(T_result(s, acts[i]), player, alpha, beta)[1]
             nv == IF v2 < v THEN v2 ELSE v
             nbest == IF v2 < v THEN acts[i] ELSE best
             nbeta == IF v2 < v THEN Min(beta, nv) ELSE beta
         IN  IF nv <= alpha THEN <<nv, nbest>>
             ELSE T_min_ab_loop(s, player, acts, i + 1, nv, nbest, alpha, nbeta)

T_min_ab(s, player, alpha, beta) ==
    IF T_is_terminal(s) THEN <<T_utility(s, player), None>>
    ELSE T_min_ab_loop(s, player, T_actions(s), 1, PosInf, None, alpha, beta)

T_alfa_beta_search(s) == T_max_ab(s, T_to_move(s), NegInf, PosInf)[2]

(***************************************************************************)
(* The runs.  game names the file that runs; N is the argument of Game(N)  *)
(* of the halving game (0 for the other games).                            *)
(*   mode = "driver": the module-level loop of the file: while the state   *)
(*     is not terminal, the mover's search picks the action, and trace is  *)
(*     the list of the actions printed so far.                             *)
(*   mode = "play": the states reachable from initial_state() by legal     *)
(*     moves: any action of actions(state) is applied to a non-terminal    *)
(*     state, as the searches do when they explore the tree.               *)
(***************************************************************************)
Init ==
    /\ game \in {"bucket", "halving", "ttt"}
    /\ N \in 0..MaxN
    /\ game # "halving" => N = 0
    /\ mode \in {"driver", "play"}
    /\ game = "bucket" => state = B_initial_state
    /\ game = "halving" => state = H_initial_state(N)
    /\ game = "ttt" => state = T_initial_state
    /\ trace = <<>>

B_Driver ==
    /\ game = "bucket" /\ mode = "driver"
    /\ ~B_is_terminal(state)
    /\ LET action == B_minimax_search(state)
       IN  /\ action # None
           /\ state' = B_result(state, action)
           /\ trace' = Append(trace, action)
    /\ UNCHANGED <<game, N, mode>>

\* Mutant of the halving driver loop: the chosen action is printed and
\* never applied to the state.
H_Driver_no_result ==
    /\ game = "halving" /\ mode = "driver"
    /\ ~H_is_terminal(state)
    /\ LET action == H_minimax_search(state)
       IN  /\ action # H_None
           /\ trace' = Append(trace, action)
    /\ UNCHANGED <<game, N, mode, state>>

H_Driver ==
    /\ game = "halving" /\ mode = "driver"
    /\ ~H_is_terminal(state)
    /\ LET action == H_minimax_search(state)
       IN  /\ action # H_None
           /\ state' = H_result(state, action)
           /\ trace' = Append(trace, action)
    /\ UNCHANGED <<game, N, mode>>

T_Driver ==
    /\ game = "ttt" /\ mode = "driver"
    /\ ~T_is_terminal(state)
    /\ LET action == T_alfa_beta_search(state)
       IN  /\ state' = T_result(state, action)
           /\ trace' = Append(trace, action)
    /\ UNCHANGED <<game, N, mode>>

B_Play ==
    /\ game = "bucket" /\ mode = "play"
    /\ ~B_is_terminal(state)
    /\ \E i \in 1..Len(B_actions(state)) :
           state' = B_result(state, B_actions(state)[i])
    /\ UNCHANGED <<game, N, mode, trace>>

H_Play ==
    /\ game = "halving" /\ mode = "play"
    /\ ~H_is_terminal(state)
    /\ \E i \in 1..Len(H_actions(state)) :
           state' = H_result(state, H_actions(state)[i])
    /\ UNCHANGED <<game, N, mode, trace>>

T_Play ==
    /\ game = "ttt" /\ mode = "play"
    /\ ~T_is_terminal(state)
    /\ \E i \in 1..Len(T_actions(state)) :
           state' = T_result(state, T_actions(state)[i])
    /\ UNCHANGED <<game, N, mode, trace>>

Next ==
    \/ B_Driver
    \/ H_Driver
    \/ T_Driver
    \/ B_Play
    \/ H_Play
    \/ T_Play

Spec == Init /\ [][Next]_vars

\* The tic-tac-toe boards alone: every state reachable from initial_state()
\* by legal moves.
T_Init ==
    /\ game = "ttt"
    /\ N = 0
    /\ mode = "play"
    /\ state = T_initial_state
    /\ trace = <<>>

T_Spec == T_Init /\ [][T_Play]_vars

\* The states of the three games reachable from initial_state() by legal
\* moves, without the self-play loops.
Play_Init == Init /\ mode = "play"

Play_Next ==
    \/ B_Play
    \/ H_Play
    \/ T_Play

PlaySpec == Play_Init /\ [][Play_Next]_vars

(***************************************************************************)
(* Properties                                                              *)
(***************************************************************************)
\* Number of marks on a tic-tac-toe board.
T_marks(s) == 9 - Len(T_actions(s))

\* The members of an action list.
Members(acts) == {acts[i] : i \in 1..Len(acts)}

\* Position of action a in the action list acts (0 when it is not there).
IndexOf(acts, a) ==
    IF \E i \in 1..Len(acts) : acts[i] = a
    THEN CHOOSE i \in 1..Len(acts) : acts[i] = a /\ \A j \in 1..(i - 1) : acts[j] # a
    ELSE 0

\* C1: in every non-terminal tic-tac-toe state reachable by legal moves, the
\* alpha-beta search from the window (-inf, +inf) returns the same
\* (value, action) pair as plain minimax: alfa_beta_search and minimax_search
\* return the same action and _max_ab and _max_plain the same root value.
\* (The boards of mode "play" are all the reachable boards, those of the
\* self-play loop among them; checked under T_Spec.)
C1_AlphaBetaEqualsMinimax ==
    (game = "ttt" /\ mode = "play" /\ ~T_is_terminal(state)) =>
        LET plain == T_max_plain(state, T_to_move(state))
            ab == T_max_ab(state, T_to_move(state), NegInf, PosInf)
        IN  /\ ab[2] = plain[2]
            /\ ab[1] = plain[1]
            /\ ab[2] # None

\* A non-terminal board on which the searches agree although alpha-beta has
\* pruned: with the window the root passes to its second action, _min_ab
\* returns a bound that is not the plain value of that successor.
C1_Witness ==
    /\ game = "ttt" /\ mode = "play"
    /\ ~T_is_terminal(state)
    /\ T_marks(state) >= 3
    /\ LET p == T_to_move(state)
           acts == T_actions(state)
           v1 == T_min_plain(T_result(state, acts[1]), p)[1]
       IN  /\ T_min_ab(T_result(state, acts[2]), p, v1, PosInf)[1]
                  # T_min_plain(T_result(state, acts[2]), p)[1]
           /\ T_alfa_beta_search(state) = T_minimax_search(state)

\* C2 (as claimed): in the bucket game minimax_search on the initial state
\* returns 'C', and the self-play loop ends with utility 15 for player 0.
C2_BucketPicksC ==
    (game = "bucket" /\ mode = "driver") =>
        /\ state = B_initial_state => B_minimax_search(state) = PyStr("C")
        /\ Len(trace) >= 1 => trace[1] = PyStr("C")
        /\ B_is_terminal(state) => B_utility(state, 0) = 15

\* The numbers and the actions of the halving game's expected output.
H_expected_numbers == <<5, 4, 3, 1, 0>>
H_expected_actions == <<"--", "--", "/2", "--">>

\* C3: with N = 5 the self-play loop of the halving game prints the actions
\* '--', '--', '/2', '--' through the numbers 5, 4, 3, 1, 0 and stops in
\* the terminal state (0, 0), where utility(state, 0) is 1.
C3_HalvingFive ==
    (game = "halving" /\ mode = "driver" /\ N = 5) =>
        /\ Len(trace) <= 4
        /\ trace = SubSeq(H_expected_actions, 1, Len(trace))
        /\ state[2] = H_expected_numbers[Len(trace) + 1]
        /\ state[1] = Len(trace) % 2
        /\ H_is_terminal(state) <=> Len(trace) = 4
        /\ H_is_terminal(state) => (state = <<0, 0>> /\ H_utility(state, 0) = 1)

C3_Witness ==
    /\ game = "halving" /\ mode = "driver" /\ N = 5
    /\ H_is_terminal(state)
    /\ trace = H_expected_actions

\* The corners and the centre of the board.
T_corner_or_center == {<<0, 0>>, <<0, 2>>, <<2, 0>>, <<2, 2>>, <<1, 1>>}

\* C4: in the tic-tac-toe self-play loop the first action chosen by
\* alfa_beta_search is a corner or the centre, and the terminal state the
\* loop stops in is a draw: utility 0 for player 0 and for player 1.
C4_SelfPlayDraw ==
    (game = "ttt" /\ mode = "driver") =>
        /\ state = T_initial_state => T_alfa_beta_search(state) \in T_corner_or_center
        /\ Len(trace) >= 1 => trace[1] \in T_corner_or_center
        /\ T_is_terminal(state) =>
               (T_utility(state, 0) = 0 /\ T_utility(state, 1) = 0)

C4_Witness ==
    /\ game = "ttt" /\ mode = "driver"
    /\ T_is_terminal(state)
    /\ trace # <<>> /\ trace[1] \in T_corner_or_center
    /\ T_utility(state, 0) = 0 /\ T_utility(state, 1) = 0

\* The actions of s that win at once: the successor is terminal and won by
\* the mover.
T_winning_actions(s) ==
    {a \in Members(T_actions(s)) :
        /\ T_is_terminal(T_result(s, a))
        /\ T_is_winner(T_result(s, a), T_to_move(s))}

\* The actions of s that force a win: plain minimax value +1 for the mover.
T_forcing_actions(s) ==
    {a \in Members(T_actions(s)) :
        T_min_plain(T_result(s, a), T_to_move(s))[1] = 1}

\* C5 (as claimed): on a board where the mover has an action that wins at
\* once, minimax_search and alfa_beta_search return such an action.
C5_ReturnsImmediateWin ==
    (game = "ttt" /\ ~T_is_terminal(state) /\ T_winning_actions(state) # {}) =>
        /\ T_minimax_search(state) \in T_winning_actions(state)
        /\ T_alfa_beta_search(state) \in T_winning_actions(state)

\* C5 (amended): on such a board both searches return the same action, the
\* first action of actions(state) that forces a win (minimax value +1); it
\* wins at once unless an earlier action of the order also forces a win.
C5_ReturnsFirstForcedWin ==
    (game = "ttt" /\ ~T_is_terminal(state) /\ T_winning_actions(state) # {}) =>
        LET a == T_minimax_search(state)
            acts == T_actions(state)
            k == IndexOf(acts, a)
        IN  /\ T_alfa_beta_search(state) = a
            /\ a \in T_forcing_actions(state)
            /\ \A j \in 1..(k - 1) : acts[j] \notin T_forcing_actions(state)
            /\ (a \notin T_winning_actions(state)) =>
                   \A w \in T_winning_actions(state) : k < IndexOf(acts, w)

\* A board with a move that wins at once on which the searches return an
\* earlier move that does not complete three in a row.
C5_Witness ==
    /\ game = "ttt" /\ ~T_is_terminal(state)
    /\ T_winning_actions(state) # {}
    /\ T_minimax_search(state) \notin T_winning_actions(state)
    /\ T_alfa_beta_search(state) = T_minimax_search(state)
    /\ T_minimax_search(state) \in T_forcing_actions(state)


\* C6: zero-sum: in every reachable terminal state of each game, the utility
\* of a player is the negation of the utility of the other player.
C6_ZeroSum ==
    /\ (game = "bucket" /\ B_is_terminal(state)) =>
           \A p \in {0, 1} : B_utility(state, p) = -B_utility(state, (p + 1) % 2)
    /\ (game = "halving" /\ H_is_terminal(state)) =>
           \A p \in {0, 1} : H_utility(state, p) = -H_utility(state, (p + 1) % 2)
    /\ (game = "ttt" /\ T_is_terminal(state)) =>
           \A p \in {0, 1} : T_utility(state, p) = -T_utility(state, (p + 1) % 2)

\* A won tic-tac-toe board: +1 for one player and -1 for the other.
C6_Witness ==
    /\ game = "ttt" /\ T_is_terminal(state)
    /\ T_utility(state, 1) = 1 /\ T_utility(state, 0) = -1

\* C7: turn alternation: to_move is 0 or 1, and every legal action of a
\* reachable non-terminal state hands the move to the other player.
C7_TurnAlternation ==
    /\ game = "bucket" =>
           /\ B_to_move(state) \in {0, 1}
           /\ ~B_is_terminal(state) =>
                  \A i \in 1..Len(B_actions(state)) :
                      B_to_move(B_result(state, B_actions(state)[i]))
                          = (B_to_move(state) + 1) % 2
    /\ game = "halving" =>
           /\ H_to_move(state) \in {0, 1}
           /\ ~H_is_terminal(state) =>
                  \A i \in 1..Len(H_actions(state)) :
                      H_to_move(H_result(state, H_actions(state)[i]))
                          = (H_to_move(state) + 1) % 2
    /\ game = "ttt" =>
           /\ T_to_move(state) \in {0, 1}
           /\ ~T_is_terminal(state) =>
                  \A i \in 1..Len(T_actions(state)) :
                      T_to_move(T_result(state, T_actions(state)[i]))
                          = (T_to_move(state) + 1) % 2

\* A non-terminal state of the halving game with player 1 to move, whose
\* two successors have player 0 to move.
C7_Witness ==
    /\ game = "halving" /\ ~H_is_terminal(state)
    /\ H_to_move(state) = 1
    /\ H_to_move(H_result(state, "--")) = 0
    /\ H_to_move(H_result(state, "/2")) = 0

\* C8: termination of self-play within a fixed number of moves: the driver
\* loop never makes more than 2 moves in the bucket game, N in the halving
\* game and 9 in tic-tac-toe, because every move uses up what is left of the
\* game (the number of the halving game, the empty cells of the board); and
\* in a state that is not terminal the search gives the loop a legal action,
\* so the loop goes on until is_terminal is true.
C8_SelfPlayTerminates ==
    /\ (game = "bucket" /\ mode = "driver") =>
           /\ Len(trace) <= 2
           /\ B_is_terminal(state) <=> Len(trace) = 2
           /\ ~B_is_terminal(state) =>
                  B_minimax_search(state) \in Members(B_actions(state))
    /\ (game = "halving" /\ mode = "driver") =>
           /\ Len(trace) <= N
           /\ Len(trace) + state[2] <= N
           /\ ~H_is_terminal(state) =>
                  H_minimax_search(state) \in Members(H_actions(state))
    /\ (game = "ttt" /\ mode = "driver") =>
           /\ Len(trace) <= 9
           /\ Len(trace) = T_marks(state)
           /\ ~T_is_terminal(state) =>
                  T_alfa_beta_search(state) \in Members(T_actions(state))

\* The self-play loop of the halving game has stopped in a terminal state
\* after at least three moves.
C8_Witness ==
    /\ game = "halving" /\ mode = "driver" /\ N >= 1
    /\ H_is_terminal(state)
    /\ Len(trace) >= 3 /\ Len(trace) <= N

\* C9 (as claimed): a reachable state is terminal if and only if its list of
\* actions is empty.
C9_TerminalIffNoActions ==
    /\ game = "bucket" => (B_is_terminal(state) <=> B_actions(state) = <<>>)
    /\ game = "halving" => (H_is_terminal(state) <=> H_actions(state) = <<>>)
    /\ game = "ttt" => (T_is_terminal(state) <=> T_actions(state) = <<>>)

\* C9 (amended): a reachable state whose list of actions is empty is
\* terminal: every non-terminal state has a legal action.  (The converse
\* fails: terminal states may list actions.)
C9_NoActionsImpliesTerminal ==
    /\ game = "bucket" => (B_actions(state) = <<>> => B_is_terminal(state))
    /\ game = "halving" => (H_actions(state) = <<>> => H_is_terminal(state))
    /\ game = "ttt" => (T_actions(state) = <<>> => T_is_terminal(state))

\* A full tic-tac-toe board that nobody has won: no action is left and the
\* state is terminal.
C9_Witness ==
    /\ game = "ttt"
    /\ T_actions(state) = <<>>
    /\ T_is_terminal(state)
    /\ T_utility(state, 0) = 0

\* The largest and the smallest element of a non-empty sequence of numbers.
SeqMax(vals) == CHOOSE x \in {vals[i] : i \in 1..Len(vals)} :
                    \A j \in 1..Len(vals) : vals[j] <= x
SeqMin(vals) == CHOOSE x \in {vals[i] : i \in 1..Len(vals)} :
                    \A j \in 1..Len(vals) : vals[j] >= x

\* The positions of x in vals, and the first of them.
Positions(vals, x) == {i \in 1..Len(vals) : vals[i] = x}
FirstPosition(vals, x) ==
    CHOOSE i \in Positions(vals, x) : \A j \in Positions(vals, x) : i <= j

\* r is the pair returned for the actions acts with child values vals: when
\* several actions attain the extremal value x, r is x with the first of them.
KeepsFirst(r, acts, vals, x) ==
    Cardinality(Positions(vals, x)) >= 2 =>
        r = <<x, acts[FirstPosition(vals, x)]>>

\* The values the maximizer (the minimizer) of each game sees for the
\* successors of s, in the order of actions(s).
B_max_children(s, p) ==
    [i \in 1..Len(B_actions(s)) |-> B_min_value(B_result(s, B_actions(s)[i]), p)[1]]
B_min_children(s, p) ==
    [i \in 1..Len(B_actions(s)) |-> B_max_value(B_result(s, B_actions(s)[i]), p)[1]]
H_max_children(s, p) ==
    [i \in 1..Len(H_actions(s)) |-> H_min_value(H_result(s, H_actions(s)[i]), p)[1]]
H_min_children(s, p) ==
    [i \in 1..Len(H_actions(s)) |-> H_max_value(H_result(s, H_actions(s)[i]), p)[1]]
T_max_children(s, p) ==
    [i \in 1..Len(T_actions(s)) |-> T_min_plain(T_result(s, T_actions(s)[i]), p)[1]]
T_min_children(s, p) ==
    [i \in 1..Len(T_actions(s)) |-> T_max_plain(T_result(s, T_actions(s)[i]), p)[1]]

\* C10: tie-break: in every reachable non-terminal state, when several
\* actions attain the largest child value, max_value (called for the mover,
\* as minimax_search calls it) returns the first of them in the order of
\* actions(state), and when several attain the smallest child value,
\* min_value (called for the other player) returns the first of them.
C10_TieBreakFirst ==
    /\ (game = "bucket" /\ ~B_is_terminal(state)) =>
           LET p == B_to_move(state)
               q == (p + 1) % 2
               mx == B_max_children(state, p)
               mn == B_min_children(state, q)
           IN  /\ KeepsFirst(B_max_value(state, p), B_actions(state), mx, SeqMax(mx))
               /\ KeepsFirst(B_min_value(state, q), B_actions(state), mn, SeqMin(mn))
    /\ (game = "halving" /\ ~H_is_terminal(state)) =>
           LET p == H_to_move(state)
               q == (p + 1) % 2
               mx == H_max_children(state, p)
               mn == H_min_children(state, q)
           IN  /\ KeepsFirst(H_max_value(state, p), H_actions(state), mx, SeqMax(mx))
               /\ KeepsFirst(H_min_value(state, q), H_actions(state), mn, SeqMin(mn))
    /\ (game = "ttt" /\ mode = "play" /\ ~T_is_terminal(state)
            /\ Len(T_actions(state)) <= MaxTieCells) =>
           LET p == T_to_move(state)
               q == (p + 1) % 2
               mx == T_max_children(state, p)
               mn == T_min_children(state, q)
           IN  /\ KeepsFirst(T_max_plain(state, p), T_actions(state), mx, SeqMax(mx))
               /\ KeepsFirst(T_min_plain(state, q), T_actions(state), mn, SeqMin(mn))

\* A tic-tac-toe board on which the largest and the smallest child value are
\* each attained by several actions, the last of them not being the action
\* returned.
C10_Witness ==
    /\ game = "ttt" /\ mode = "play" /\ ~T_is_terminal(state)
    /\ Len(T_actions(state)) <= MaxTieCells
    /\ LET p == T_to_move(state)
           q == (p + 1) % 2
           acts == T_actions(state)
           mx == T_max_children(state, p)
           mn == T_min_children(state, q)
       IN  /\ Cardinality(Positions(mx, SeqMax(mx))) >= 2
           /\ Cardinality(Positions(mn, SeqMin(mn))) >= 2
           /\ T_minimax_search(state) = acts[FirstPosition(mx, SeqMax(mx))]
           /\ T_min_plain(state, q)[2] = acts[FirstPosition(mn, SeqMin(mn))]

\* C11: in every reachable state of every game the search entry point
\* (minimax_search, and alfa_beta_search in tic-tac-toe) returns None when
\* the state is terminal and a member of actions(state) when it is not, so
\* it returns None exactly on the terminal states.
C11_NoneIffTerminal ==
    /\ game = "bucket" =>
           LET action == B_minimax_search(state)
           IN  IF B_is_terminal(state) THEN action = None
               ELSE action \in Members(B_actions(state)) /\ action # None
    /\ game = "halving" =>
           LET action == H_minimax_search(state)
           IN  IF H_is_terminal(state) THEN action = H_None
               ELSE action \in Members(H_actions(state)) /\ action # H_None
    /\ game = "ttt" =>
           LET plain == T_minimax_search(state)
               ab == T_alfa_beta_search(state)
           IN  IF T_is_terminal(state) THEN plain = None /\ ab = None
               ELSE /\ plain \in Members(T_actions(state)) /\ plain # None
                    /\ ab \in Members(T_actions(state)) /\ ab # None

\* A halving state that is lost for the player to move: every successor has
\* the value -1, and the search still returns an action.
C11_Witness ==
    /\ game = "halving" /\ ~H_is_terminal(state)
    /\ H_max_value(state, H_to_move(state))[1] = -1
    /\ H_minimax_search(state) = "--"

C13_RewardToLastMover ==
    (game = "bucket" /\ ~B_is_terminal(state)) =>
        \A i \in 1..Len(B_actions(state)) :
            LET p == B_to_move(state)
                x == B_actions(state)[i]
                s2 == B_result(state, x)
            IN  (B_is_terminal(s2) /\ B_result_assert(x)) =>
                    /\ B_utility(s2, p) = x[2]
                    /\ B_utility(s2, (p + 1) % 2) = -x[2]

\* C14 (as claimed): in the plain minimax of every game, on a non-terminal
\* state min_value returns the smallest of the values max_value returns for
\* the successors, and max_value returns the largest of the values min_value
\* returns for the successors.
C14_MinMirrorsMax ==
    /\ (game = "bucket" /\ ~B_is_terminal(state)) =>
           LET p == B_to_move(state)
               q == (p + 1) % 2
           IN  /\ B_max_value(state, p)[1] = SeqMax(B_max_children(state, p))
               /\ B_min_value(state, q)[1] = SeqMin(B_min_children(state, q))
    /\ (game = "halving" /\ ~H_is_terminal(state)) =>
           LET p == H_to_move(state)
               q == (p + 1) % 2
           IN  /\ H_max_value(state, p)[1] = SeqMax(H_max_children(state, p))
               /\ H_min_value(state, q)[1] = SeqMin(H_min_children(state, q))
    /\ (game = "ttt" /\ mode = "play" /\ ~T_is_terminal(state)
            /\ Len(T_actions(state)) <= MaxTieCells) =>
           LET p == T_to_move(state)
               q == (p + 1) % 2
           IN  /\ T_max_plain(state, p)[1] = SeqMax(T_max_children(state, p))
               /\ T_min_plain(state, q)[1] = SeqMin(T_min_children(state, q))

\* The values a window bound can take in tic-tac-toe: the two infinities the
\* root passes and the three utilities.
T_window_values == {NegInf, -1, 0, 1, PosInf}

\* v is what a fail-soft search may return for a state of value m searched
\* with the window (alpha, beta): m itself inside the window, otherwise a
\* bound between m and the window's edge.
WindowSound(v, m, alpha, beta) ==
    /\ (alpha < m /\ m < beta) => v = m
    /\ m <= alpha => (m <= v /\ v <= alpha)
    /\ m >= beta => (beta <= v /\ v <= m)

\* C15: in tic-tac-toe, for every reachable state and every window
\* alpha < beta, _max_ab (called for the mover) and _min_ab (called for the
\* other player) return the plain-minimax value m when alpha < m < beta, a
\* value between m and alpha when m <= alpha, and a value between beta and m
\* when m >= beta.
C15_WindowSound ==
    (game = "ttt" /\ mode = "play" /\ Len(T_actions(state)) <= MaxWindowCells) =>
        LET p == T_to_move(state)
            q == (p + 1) % 2
            mMax == T_max_plain(state, p)[1]
            mMin == T_min_plain(state, q)[1]
        IN  \A alpha, beta \in T_window_values :
                alpha < beta =>
                    /\ WindowSound(T_max_ab(state, p, alpha, beta)[1], mMax, alpha, beta)
                    /\ WindowSound(T_min_ab(state, q, alpha, beta)[1], mMin, alpha, beta)

\* A board and a window on which the searches return bounds and not the
\* value: _max_ab returns less than m (m >= beta), and _min_ab returns more
\* than m (m <= alpha).
C15_Witness ==
    /\ game = "ttt" /\ mode = "play" /\ ~T_is_terminal(state)
    /\ Len(T_actions(state)) <= MaxWindowCells
    /\ LET p == T_to_move(state)
           q == (p + 1) % 2
       IN  /\ \E alpha, beta \in T_window_values :
                  /\ alpha < beta
                  /\ T_max_ab(state, p, alpha, beta)[1] < T_max_plain(state, p)[1]
           /\ \E alpha, beta \in T_window_values :
                  /\ alpha < beta
                  /\ T_min_ab(state, q, alpha, beta)[1] > T_min_plain(state, q)[1]

\* C16: result never mutates its input.  With the state's board (list) held
\* in a heap, after s2 = result(s, a) every object that existed before the
\* call is unchanged, so s reads as before; the state returned is the one
\* the search works with (T_result, B_result); in tic-tac-toe the board of
\* s2 differs from the board of s in exactly the cell a, which was empty and
\* now holds to_move(s).  (A state of the halving game is a tuple of two
\* integers: it has no object that could be written.)
C16_ResultKeepsInput ==
    /\ (game = "ttt" /\ ~T_is_terminal(state)) =>
           \A i \in 1..Len(T_actions(state)) :
               LET a == T_actions(state)[i]
                   h0 == T_heap_of(state)
                   res == T_result_heap(h0, <<T_to_move(state), 1>>, a)
                   h1 == res[1]
                   s2 == <<res[2][1], T_board_at(h1, res[2][2])>>
               IN  /\ \A o \in 1..Len(h0) : h1[o] = h0[o]
                   /\ T_board_at(h1, 1) = state[2]
                   /\ s2 = T_result(state, a)
                   /\ state[2][a[1]][a[2]] = NoneCell
                   /\ \A r, c \in 0..2 :
                          s2[2][r][c] = IF <<r, c>> = a THEN T_to_move(state)
                                        ELSE state[2][r][c]
    /\ (game = "bucket" /\ ~B_is_terminal(state)) =>
           \A i \in 1..Len(B_actions(state)) :
               LET a == B_actions(state)[i]
                   h0 == <<state[2]>>
                   res == B_result_heap(h0, <<B_to_move(state), 1>>, a)
                   h1 == res[1]
               IN  /\ \A o \in 1..Len(h0) : h1[o] = h0[o]
                   /\ <<res[2][1], h1[res[2][2]]>> = B_result(state, a)

\* A board with marks of both players on which a move is made into a row
\* that already holds a mark: the row object of the input keeps its cells
\* and the row object of the result has one more mark.
C16_Witness ==
    /\ game = "ttt" /\ ~T_is_terminal(state)
    /\ T_marks(state) >= 2
    /\ \E i \in 1..Len(T_actions(state)) :
           LET a == T_actions(state)[i]
               h0 == T_heap_of(state)
               res == T_result_heap(h0, <<T_to_move(state), 1>>, a)
               h1 == res[1]
           IN  /\ \E c \in 0..2 : state[2][a[1]][c] # NoneCell
               /\ h1[a[1] + 2] = state[2][a[1]]
               /\ h1[h1[res[2][2]][a[1]]] # state[2][a[1]]

\* Number of moves made to reach a state of the bucket game: the list of
\* the initial state has three entries and every move leaves one fewer.
B_moves_made(s) == Len(B_initial_state[2]) - Len(s[2])

\* C17: every legal move shrinks the game.  In the halving game every
\* successor of a non-terminal state has 0 <= number' < number; in
\* tic-tac-toe every successor has one fewer empty cell; in the bucket game
\* a state is terminal exactly after 2 moves.  The self-play loops have made
\* as many moves as the measure says, and the search returns a value in
\* every reachable state.
C17_MovesShrink ==
    /\ game = "halving" =>
           /\ 0 <= state[2] /\ state[2] <= N
           /\ ~H_is_terminal(state) =>
                  \A i \in 1..Len(H_actions(state)) :
                      LET s2 == H_result(state, H_actions(state)[i])
                      IN  0 <= s2[2] /\ s2[2] < state[2]
           /\ mode = "driver" => Len(trace) <= N - state[2]
           /\ H_max_value(state, H_to_move(state))[1] \in {-1, 1}
    /\ game = "ttt" =>
           /\ ~T_is_terminal(state) =>
                  \A i \in 1..Len(T_actions(state)) :
                      LET s2 == T_result(state, T_actions(state)[i])
                      IN  Len(T_actions(s2)) = Len(T_actions(state)) - 1
           /\ mode = "driver" => Len(trace) = T_marks(state)
           /\ T_max_ab(state, T_to_move(state), NegInf, PosInf)[1] \in {-1, 0, 1}
    /\ game = "bucket" =>
           /\ B_moves_made(state) \in 0..2
           /\ B_is_terminal(state) <=> B_moves_made(state) = 2
           /\ state = B_initial_state <=> B_moves_made(state) = 0
           /\ ~B_is_terminal(state) =>
                  \A i \in 1..Len(B_actions(state)) :
                      LET s2 == B_result(state, B_actions(state)[i])
                      IN  B_moves_made(s2) = B_moves_made(state) + 1
           /\ mode = "driver" => Len(trace) = B_moves_made(state)
           /\ B_max_value(state, B_to_move(state))[1] \in -50..50

\* The halving game at an odd number above 1, where '/2' and '--' give
\* different smaller numbers, and both successors are non-terminal.
C17_Witness ==
    /\ game = "halving" /\ mode = "play"
    /\ state[2] % 2 = 1 /\ state[2] >= 3 /\ state[2] < N
    /\ H_result(state, "/2")[2] < H_result(state, "--")[2]
    /\ H_result(state, "--")[2] < state[2]
    /\ ~H_is_terminal(H_result(state, "/2"))

\* C18: in every tic-tac-toe state reachable from the empty board by legal
\* moves made from non-terminal states, to_move is the number of marks
\* mod 2, the player to move has no three in a row, at most one player has
\* three in a row, a state in which some player has three in a row is
\* terminal, and utility is not 1 for both players.
C18_ReachableBoards ==
    game = "ttt" =>
        /\ T_to_move(state) = T_marks(state) % 2
        /\ ~T_is_winner(state, T_to_move(state))
        /\ ~(T_is_winner(state, 0) /\ T_is_winner(state, 1))
        /\ (T_is_winner(state, 0) \/ T_is_winner(state, 1)) => T_is_terminal(state)
        /\ T_is_terminal(state) =>
               ~(T_utility(state, 0) = 1 /\ T_utility(state, 1) = 1)

\* A won position with empty cells left: the previous mover has three in a
\* row, the state is terminal, and the utilities are 1 and -1.
C18_Witness ==
    /\ game = "ttt"
    /\ T_is_winner(state, (T_to_move(state) + 1) % 2)
    /\ T_actions(state) # <<>>
    /\ T_is_terminal(state)
    /\ T_utility(state, (T_to_move(state) + 1) % 2) = 1
    /\ T_utility(state, T_to_move(state)) = -1

\* The assertions one call of max_value / min_value on s runs into: on a
\* terminal state those of utility; otherwise those of result for every
\* action of the loop (in the bucket game result asserts only after the
\* three labels were compared).  print calls utility on terminal states
\* only, under the same test.
B_call_asserts(s) ==
    IF B_is_terminal(s) THEN B_utility_assert(s)
    ELSE \A i \in 1..Len(B_actions(s)) :
             LET a == B_actions(s)[i]
             IN  a \in {PyStr("A"), PyStr("B"), PyStr("C")} \/ B_result_assert(a)

H_call_asserts(s) == H_is_terminal(s) => H_utility_assert(s)

T_call_asserts(s) == T_is_terminal(s) => T_utility_assert(s)

\* C19: no assertion fails in a search or a self-play loop started from
\* initial_state(): in every reachable state the assertions a call of
\* max_value / min_value or of print runs into hold; in the bucket game an
\* integer action occurs only in a non-terminal state of two integers, and a
\* terminal state holds one integer; in the self-play loops of the bucket
\* and the halving game the action the search returns is not None.
C19_NoAssertionFails ==
    /\ game = "bucket" =>
           /\ B_call_asserts(state)
           /\ ~B_is_terminal(state) =>
                  \/ state = B_initial_state
                  \/ /\ Len(B_actions(state)) = 2
                     /\ \A i \in 1..2 : B_actions(state)[i][1] = "int"
           /\ state = B_initial_state =>
                  \A i \in 1..Len(B_actions(state)) : B_actions(state)[i][1] = "str"
           /\ B_is_terminal(state) =>
                  Len(state[2]) = 1 /\ state[2][1][1] = "int"
           /\ (mode = "driver" /\ ~B_is_terminal(state)) =>
                  B_minimax_search(state) # None
    /\ game = "halving" =>
           /\ H_call_asserts(state)
           /\ (mode = "driver" /\ ~H_is_terminal(state)) =>
                  H_minimax_search(state) # H_None
    /\ game = "ttt" => T_call_asserts(state)

\* The bucket game after a bucket was chosen: max_value / min_value apply
\* result to two integers, and each gives a terminal state on which the
\* assertions of utility hold.
C19_Witness ==
    /\ game = "bucket" /\ ~B_is_terminal(state)
    /\ state # B_initial_state
    /\ \A i \in 1..Len(B_actions(state)) :
           /\ B_result_assert(B_actions(state)[i])
           /\ B_utility_assert(B_result(state, B_actions(state)[i]))

====
